---- MODULE Spec2Model ----
(***************************************************************************)
(* Movie picker: ranked voting over meetings, with the resolution of the   *)
(* winning movie and date when voting closes.  Two storage backends are    *)
(* modelled side by side: the relational one (server.js, better-sqlite3)   *)
(* and the document one (functions/index.js, Firestore).                   *)
(*                                                                         *)
(* Encoding of JavaScript values:                                          *)
(*   - ids are positive integers; 0 is a missing/falsy id (null, 0, "");   *)
(*   - a rank is an integer; 0 is a missing/falsy rank;                    *)
(*   - a string field is "" when it is null;                               *)
(*   - an optional array is <<>> when null and <<arr>> when present;       *)
(*   - the body of a request lists the fields it defines in `has`.         *)
(* Dates are opaque date strings (not integer-like object keys), so the    *)
(* iteration order of a tally is its insertion order.                      *)
(***************************************************************************)
EXTENDS Integers, Sequences, FiniteSets, TLC

VARIABLES backend, db, auth, lastOp, inflight, twin

vars == <<backend, db, auth, lastOp, inflight, twin>>

\* ------------------------------------------------------------------ bounds
MaxMovies == 2
MaxMeetings == 2
MaxBallots == 2
MaxRank == 5
MaxTokens == 1
MaxTime == 5
AdminMeetings == 1
MaxInflight == 2

\* at most three ranks in a ballot
MaxRanks == 3

Backends == {"sql", "fs"}
Dates == {"d1", "d2"}

None == <<>>
Some(x) == <<x>>

\* ------------------------------------------------------------------ helpers
Range(s) == {s[i] : i \in 1..Len(s)}

RECURSIVE FilterSeq(_, _)
FilterSeq(s, keep) ==
  IF s = <<>> THEN <<>>
  ELSE IF Head(s) \in keep THEN <<Head(s)>> \o FilterSeq(Tail(s), keep)
       ELSE FilterSeq(Tail(s), keep)

\* all orderings of a sequence
Perms(s) ==
  {[i \in 1..Len(s) |-> s[p[i]]] :
     p \in {q \in [1..Len(s) -> 1..Len(s)] : \A i, j \in 1..Len(s) : i # j => q[i] # q[j]}}

\* ------------------------------------------------------------------ state
\* The tables (collections) of one backend.  meetings, ballots and ballot_votes
\* are kept in insertion (rowid) order; the document backend embeds the rank
\* entries in the ballot (votes) and leaves ballot_votes empty.
EmptyDb ==
  [movies |-> {}, meetings |-> <<>>, ballots |-> <<>>, ballot_votes |-> <<>>,
   nextMovie |-> 1, nextMeeting |-> 1, nextBallot |-> 1]

MeetingIds(d) == {d.meetings[i].id : i \in 1..Len(d.meetings)}

HasMeeting(d, id) == id \in MeetingIds(d)

MeetingOf(d, id) ==
  LET i == CHOOSE k \in 1..Len(d.meetings) : d.meetings[k].id = id
  IN d.meetings[i]

SetMeeting(d, id, m) ==
  [d EXCEPT !.meetings = [i \in 1..Len(d.meetings) |->
      IF d.meetings[i].id = id THEN m ELSE d.meetings[i]]]

RECURSIVE SelectSeq2(_, _, _)
\* the rows of s whose field f is v, in order
SelectSeq2(s, f, v) ==
  IF s = <<>> THEN <<>>
  ELSE IF Head(s)[f] = v THEN <<Head(s)>> \o SelectSeq2(Tail(s), f, v)
       ELSE SelectSeq2(Tail(s), f, v)

BallotsOfMeeting(d, id) == SelectSeq2(d.ballots, "meeting_id", id)

\* ------------------------------------------------------------------ POST /api/votes
\* new Set(movieIds).size !== movieIds.length
HasDuplicateMovie(ranks) ==
  Cardinality({ranks[i].movieId : i \in 1..Len(ranks)}) # Len(ranks)

\* !r.rank || !r.movieId
InvalidRankEntry(r) == r.rank = 0 \/ r.movieId = 0

\* The checks both backends make before they look at the meeting.
\* 0 when the request passes, else the status of the rejection.
RequestShapeStatus(username, ranks, meetingId) ==
  IF username = "" THEN 400
  ELSE IF Len(ranks) = 0 THEN 400
  ELSE IF Len(ranks) > MaxRanks THEN 400
  ELSE IF meetingId = 0 THEN 400
  ELSE 0

RECURSIVE SqlInsertVotes(_, _, _)
\* the loop of the transaction: one insert per rank entry; ok is FALSE when the
\* loop threw (an invalid entry, or the foreign key movie_id -> movies(id))
SqlInsertVotes(d, ballotId, ranks) ==
  IF ranks = <<>> THEN [db |-> d, ok |-> TRUE]
  ELSE LET r == Head(ranks) IN
       IF InvalidRankEntry(r) THEN [db |-> d, ok |-> FALSE]
       ELSE IF r.movieId \notin d.movies THEN [db |-> d, ok |-> FALSE]
       ELSE SqlInsertVotes(
              [d EXCEPT !.ballot_votes = Append(@,
                  [ballot_id |-> ballotId, movie_id |-> r.movieId, rank |-> r.rank])],
              ballotId, Tail(ranks))

TxKeepPartial(before, after) == after.db

\* db.transaction: the writes of a body that throws are rolled back
Transaction(before, after) == IF after.ok THEN after.db ELSE before

SqlClosedCheckSkipped(meeting) == FALSE

\* if (!meeting.voting_open) return 400
SqlVotingClosed(meeting) == ~meeting.voting_open

SqlSubmitBallot(d, username, ranks, meetingId, availability) ==
  LET shape == RequestShapeStatus(username, ranks, meetingId) IN
  IF shape # 0 THEN [db |-> d, status |-> shape]
  ELSE IF ~HasMeeting(d, meetingId) THEN [db |-> d, status |-> 400]
  ELSE IF SqlVotingClosed(MeetingOf(d, meetingId)) THEN [db |-> d, status |-> 400]
  ELSE IF HasDuplicateMovie(ranks) THEN [db |-> d, status |-> 400]
  ELSE
    LET ballotId == d.nextBallot
        withBallot == [d EXCEPT
          !.ballots = Append(@, [id |-> ballotId, username |-> username,
                                 meeting_id |-> meetingId,
                                 availability |-> availability]),
          !.nextBallot = @ + 1]
        after == SqlInsertVotes(withBallot, ballotId, ranks)
    IN [db |-> Transaction(d, after), status |-> IF after.ok THEN 200 ELSE 400]

\* db.collection('ballots').add(ballotDoc)
FsAddBallot(d, username, ranks, meetingId, availability) ==
  [d EXCEPT
    !.ballots = Append(@, [id |-> d.nextBallot, username |-> username,
        meeting_id |-> meetingId, availability |-> availability,
        votes |-> [i \in 1..Len(ranks) |->
                     [movie_id |-> ranks[i].movieId, rank |-> ranks[i].rank]]]),
    !.nextBallot = @ + 1]

FsDuplicateCheckSkipped(ranks) == FALSE

FsHasDuplicateMovie(ranks) == HasDuplicateMovie(ranks)

FsSubmitBallotAllowed(d, username, ranks, meetingId, availability) ==
  LET shape == RequestShapeStatus(username, ranks, meetingId) IN
  IF shape # 0 THEN [db |-> d, status |-> shape]
  ELSE IF ~HasMeeting(d, meetingId) THEN [db |-> d, status |-> 400]
  ELSE IF ~MeetingOf(d, meetingId).voting_open THEN [db |-> d, status |-> 400]
  ELSE IF /\ MeetingOf(d, meetingId).allowed_movie_ids # None
          /\ \E i \in 1..Len(ranks) :
                ranks[i].movieId \notin Range(MeetingOf(d, meetingId).allowed_movie_ids[1])
       THEN [db |-> d, status |-> 400]
  ELSE IF FsHasDuplicateMovie(ranks) THEN [db |-> d, status |-> 400]
  ELSE IF \E i \in 1..Len(ranks) : InvalidRankEntry(ranks[i])
       THEN [db |-> d, status |-> 400]
  ELSE [db |-> FsAddBallot(d, username, ranks, meetingId, availability), status |-> 200]

FsSubmitBallot(d, username, ranks, meetingId, availability) ==
  LET shape == RequestShapeStatus(username, ranks, meetingId) IN
  IF shape # 0 THEN [db |-> d, status |-> shape]
  ELSE IF ~HasMeeting(d, meetingId) THEN [db |-> d, status |-> 400]
  ELSE IF ~MeetingOf(d, meetingId).voting_open THEN [db |-> d, status |-> 400]
  ELSE IF FsHasDuplicateMovie(ranks) THEN [db |-> d, status |-> 400]
  ELSE IF \E i \in 1..Len(ranks) : InvalidRankEntry(ranks[i])
       THEN [db |-> d, status |-> 400]
  ELSE [db |-> FsAddBallot(d, username, ranks, meetingId, availability), status |-> 200]

\* ------------------------------------------------------------------ availability tally
RECURSIVE WithAvailability(_)
\* ... AND availability IS NOT NULL / .where('availability', '!=', null)
WithAvailability(rows) ==
  IF rows = <<>> THEN <<>>
  ELSE IF Head(rows).availability # None
       THEN <<Head(rows)>> \o WithAvailability(Tail(rows))
       ELSE WithAvailability(Tail(rows))

RECURSIVE CountDate(_, _)
\* dateCounts[d] = (dateCounts[d] || 0) + 1 on a tally kept in insertion order
CountDate(tally, date) ==
  IF tally = <<>> THEN <<[date |-> date, count |-> 1]>>
  ELSE IF Head(tally).date = date
       THEN <<[date |-> date, count |-> Head(tally).count + 1]>> \o Tail(tally)
       ELSE <<Head(tally)>> \o CountDate(Tail(tally), date)

RECURSIVE CountDates(_, _)
CountDates(tally, dates) ==
  IF dates = <<>> THEN tally
  ELSE CountDates(CountDate(tally, Head(dates)), Tail(dates))

RECURSIVE TallyDates(_, _)
\* the loop over the rows of the availability query; a null availability adds
\* nothing
TallyDates(tally, rows) ==
  IF rows = <<>> THEN tally
  ELSE LET a == Head(rows).availability IN
       TallyDates(IF a = None THEN tally ELSE CountDates(tally, a[1]), Tail(rows))

RECURSIVE ChooseLastDate(_, _, _)
ChooseLastDate(tally, chosenDate, maxCount) ==
  IF tally = <<>> THEN chosenDate
  ELSE IF Head(tally).count >= maxCount
       THEN ChooseLastDate(Tail(tally), Head(tally).date, Head(tally).count)
       ELSE ChooseLastDate(Tail(tally), chosenDate, maxCount)

RECURSIVE ChooseDate(_, _, _)
\* for (const [d, c] of Object.entries(dateCounts)) if (c > maxCount) ...
ChooseDate(tally, chosenDate, maxCount) ==
  IF tally = <<>> THEN chosenDate
  ELSE IF Head(tally).count > maxCount
       THEN ChooseDate(Tail(tally), Head(tally).date, Head(tally).count)
       ELSE ChooseDate(Tail(tally), chosenDate, maxCount)

\* ------------------------------------------------------------------ resolver, relational
\* the ballot_votes rows of movie m joined to a ballot of the meeting
SqlScopedVotes(d, m, meetingId) ==
  LET ids == {d.ballots[i].id : i \in {k \in 1..Len(d.ballots) :
                                         d.ballots[k].meeting_id = meetingId}}
  IN {i \in 1..Len(d.ballot_votes) :
        d.ballot_votes[i].movie_id = m /\ d.ballot_votes[i].ballot_id \in ids}

RECURSIVE SumPoints(_, _)
SumPoints(d, rows) ==
  IF rows = {} THEN 0
  ELSE LET i == CHOOSE k \in rows : TRUE
       IN (4 - d.ballot_votes[i].rank) + SumPoints(d, rows \ {i})

\* SUM(CASE WHEN b.id IS NOT NULL THEN (4 - bv.rank) ELSE 0 END), and the count
SqlTopRow(d, m, meetingId) ==
  LET rows == SqlScopedVotes(d, m, meetingId)
  IN [movie_id |-> m, score |-> SumPoints(d, rows), vote_count |-> Cardinality(rows)]

SqlTopNotYetWatched(d, meetingId) ==
  LET fresh == {m \in d.movies :
                  \A i \in 1..Len(d.meetings) : d.meetings[i].watched_movie_id # m}
      rows == {SqlTopRow(d, m, meetingId) : m \in fresh}
  IN {r \in rows : \A o \in rows :
        o.score < r.score \/ (o.score = r.score /\ o.vote_count <= r.vote_count)}

\* ORDER BY score DESC, vote_count DESC LIMIT 1: any row no other row precedes
SqlTop(d, meetingId) ==
  LET rows == {SqlTopRow(d, m, meetingId) : m \in d.movies}
  IN {r \in rows : \A o \in rows :
        o.score < r.score \/ (o.score = r.score /\ o.vote_count <= r.vote_count)}

SqlWinnerUnchecked(top) == TRUE

\* if (top && top.movie_id && Number(top.vote_count) > 0)
SqlHasWinner(top) == top.vote_count > 0

\* the block of if (willCloseVoting): the outcomes it can leave
SqlResolve(d, id) ==
  LET tally == TallyDates(<<>>, WithAvailability(BallotsOfMeeting(d, id)))
      chosenDate == ChooseDate(tally, "", 0)
      m0 == MeetingOf(d, id)
      d1 == IF chosenDate # "" THEN SetMeeting(d, id, [m0 EXCEPT !.date = chosenDate])
            ELSE d
  IN IF SqlTop(d1, id) = {} THEN {[db |-> d1, tally |-> tally]}
     ELSE {[db |-> IF SqlHasWinner(top)
                   THEN SetMeeting(d1, id,
                          [MeetingOf(d1, id) EXCEPT !.watched_movie_id = top.movie_id])
                   ELSE d1,
            tally |-> tally] : top \in SqlTop(d1, id)}

\* ------------------------------------------------------------------ resolver, documents
RECURSIVE FsAddVote(_, _)
\* movieScores[id] = (movieScores[id] || 0) + score; movieVoteCounts[id] += 1,
\* on a map kept in insertion order
FsAddVote(scores, vote) ==
  IF scores = <<>>
  THEN <<[movie_id |-> vote.movie_id, score |-> 4 - vote.rank, vote_count |-> 1]>>
  ELSE IF Head(scores).movie_id = vote.movie_id
       THEN <<[movie_id |-> vote.movie_id, score |-> Head(scores).score + (4 - vote.rank),
               vote_count |-> Head(scores).vote_count + 1]>> \o Tail(scores)
       ELSE <<Head(scores)>> \o FsAddVote(Tail(scores), vote)

RECURSIVE FsAddVotes(_, _)
FsAddVotes(scores, votes) ==
  IF votes = <<>> THEN scores
  ELSE FsAddVotes(FsAddVote(scores, Head(votes)), Tail(votes))

RECURSIVE FsScores(_, _)
FsScores(scores, docs) ==
  IF docs = <<>> THEN scores
  ELSE FsScores(FsAddVotes(scores, Head(docs).votes), Tail(docs))

RECURSIVE FsTopMovie(_, _)
\* the loop over Object.entries(movieScores); top starts as (null, -1, 0)
FsTopMovie(scores, top) ==
  IF scores = <<>> THEN top
  ELSE LET e == Head(scores) IN
       IF e.score > top.score \/ (e.score = top.score /\ e.vote_count > top.vote_count)
       THEN FsTopMovie(Tail(scores), e)
       ELSE FsTopMovie(Tail(scores), top)

FsNoTop == [movie_id |-> 0, score |-> -1, vote_count |-> 0]

\* update(autoUpdates), when autoUpdates has a key
FsAutoUpdates(d, id, chosenDate, top) ==
  LET m0 == MeetingOf(d, id)
      m1 == IF chosenDate # "" THEN [m0 EXCEPT !.date = chosenDate] ELSE m0
      m2 == IF top.movie_id # 0 /\ top.vote_count > 0
            THEN [m1 EXCEPT !.watched_movie_id = top.movie_id] ELSE m1
  IN SetMeeting(d, id, m2)

\* the block of if (willCloseVoting): one outcome per order in which the two
\* queries can return the ballots of the meeting
FsResolve(d, id) ==
  {LET tally == TallyDates(<<>>, availDocs)
       chosenDate == ChooseDate(tally, "", 0)
       top == FsTopMovie(FsScores(<<>>, voteDocs), FsNoTop)
   IN [db |-> FsAutoUpdates(d, id, chosenDate, top), tally |-> tally] :
     availDocs \in Perms(WithAvailability(BallotsOfMeeting(d, id))),
     voteDocs \in Perms(BallotsOfMeeting(d, id))}

\* ------------------------------------------------------------------ PATCH /api/meetings/:id
WillCloseWhenever(prevVotingOpen, body) ==
  "voting_open" \in body.has /\ ~body.voting_open

WillCloseOnToggle(prevVotingOpen, body) ==
  "voting_open" \in body.has /\ prevVotingOpen # body.voting_open

\* if (typeof voting_open !== 'undefined') { ...;
\*   if (prevVotingOpen === 1 && !voting_open) willCloseVoting = true; }
WillCloseVoting(prevVotingOpen, body) ==
  "voting_open" \in body.has /\ prevVotingOpen /\ ~body.voting_open

\* UPDATE meetings SET <the fields the body defines>
SqlUpdateFields(m, body) ==
  [m EXCEPT
    !.voting_open = IF "voting_open" \in body.has THEN body.voting_open ELSE @,
    !.name = IF "name" \in body.has THEN body.name ELSE @,
    !.candidate_days = IF "candidate_days" \in body.has THEN body.candidate_days ELSE @,
    !.allowed_movie_ids =
       IF "allowed_movie_ids" \in body.has THEN body.allowed_movie_ids ELSE @]

\* updates.candidate_days = candidate_days || []
FsUpdateFields(m, body) ==
  [m EXCEPT
    !.voting_open = IF "voting_open" \in body.has THEN body.voting_open ELSE @,
    !.name = IF "name" \in body.has THEN body.name ELSE @,
    !.candidate_days =
       IF "candidate_days" \in body.has
       THEN (IF body.candidate_days = None THEN Some(<<>>) ELSE body.candidate_days)
       ELSE @,
    !.allowed_movie_ids =
       IF "allowed_movie_ids" \in body.has THEN body.allowed_movie_ids ELSE @]

Unresolved(d, status) == {[db |-> d, status |-> status, resolved |-> 0, tally |-> <<>>]}

SqlPatchMeeting(d, id, body) ==
  IF ~HasMeeting(d, id) THEN Unresolved(d, 404)
  ELSE IF body.has = {} THEN Unresolved(d, 400)
  ELSE
    LET meeting == MeetingOf(d, id)
        updated == SetMeeting(d, id, SqlUpdateFields(meeting, body))
    IN IF WillCloseVoting(meeting.voting_open, body)
       THEN {[db |-> o.db, status |-> 200, resolved |-> 1, tally |-> o.tally] :
               o \in SqlResolve(updated, id)}
       ELSE Unresolved(updated, 200)

FsPatchMeeting(d, id, body) ==
  IF ~HasMeeting(d, id) THEN Unresolved(d, 404)
  ELSE IF body.has = {} THEN Unresolved(d, 400)
  ELSE
    LET currentData == MeetingOf(d, id)
        updated == SetMeeting(d, id, FsUpdateFields(currentData, body))
    IN IF WillCloseVoting(currentData.voting_open, body)
       THEN {[db |-> o.db, status |-> 200, resolved |-> 1, tally |-> o.tally] :
               o \in FsResolve(updated, id)}
       ELSE Unresolved(updated, 200)

\* ------------------------------------------------------------------ POST /api/meetings
\* voting_open ? 1 : 0; the row violates the foreign key of watched_movie_id
\* when that movie does not exist, and the handler then fails
SqlCreateMeeting(d, body) ==
  IF body.watched_movie_id # 0 /\ body.watched_movie_id \notin d.movies
  THEN [db |-> d, status |-> 500]
  ELSE [db |-> [d EXCEPT
          !.meetings = Append(@,
             [id |-> d.nextMeeting, name |-> body.name, date |-> body.date,
              candidate_days |-> body.candidate_days,
              allowed_movie_ids |-> body.allowed_movie_ids,
              voting_open |-> ("voting_open" \in body.has /\ body.voting_open),
              watched_movie_id |-> body.watched_movie_id]),
          !.nextMeeting = @ + 1],
        status |-> 200]

\* candidate_days: candidate_days || [], voting_open: voting_open ? true : false
FsCreateMeeting(d, body) ==
  [db |-> [d EXCEPT
      !.meetings = Append(@,
         [id |-> d.nextMeeting, name |-> body.name, date |-> body.date,
          candidate_days |->
            IF body.candidate_days = None THEN Some(<<>>) ELSE body.candidate_days,
          allowed_movie_ids |-> body.allowed_movie_ids,
          voting_open |-> ("voting_open" \in body.has /\ body.voting_open),
          watched_movie_id |-> body.watched_movie_id]),
      !.nextMeeting = @ + 1],
   status |-> 200]

\* ------------------------------------------------------------------ DELETE /api/meetings/:id
RECURSIVE DropRows(_, _, _)
\* the rows of s whose field f is not in vs
DropRows(s, f, vs) ==
  IF s = <<>> THEN <<>>
  ELSE IF Head(s)[f] \in vs THEN DropRows(Tail(s), f, vs)
       ELSE <<Head(s)>> \o DropRows(Tail(s), f, vs)

\* DELETE FROM ballots WHERE meeting_id = ? (cascades to ballot_votes), then the
\* meeting, in one transaction
SqlDeleteMeeting(d, id) ==
  IF ~HasMeeting(d, id) THEN [db |-> d, status |-> 404]
  ELSE
    LET gone == {d.ballots[i].id : i \in {k \in 1..Len(d.ballots) :
                                            d.ballots[k].meeting_id = id}}
    IN [db |-> [d EXCEPT
            !.ballots = DropRows(@, "meeting_id", {id}),
            !.ballot_votes = DropRows(@, "ballot_id", gone),
            !.meetings = DropRows(@, "id", {id})],
        status |-> 200]

\* one batch: the ballots of the meeting, then the meeting
FsDeleteMeeting(d, id) ==
  IF ~HasMeeting(d, id) THEN [db |-> d, status |-> 404]
  ELSE [db |-> [d EXCEPT
            !.ballots = DropRows(@, "meeting_id", {id}),
            !.meetings = DropRows(@, "id", {id})],
        status |-> 200]

\* ------------------------------------------------------------------ POST /api/meetings/:id/watched
\* both backends: the movie must exist; a falsy movieId clears the field
MarkWatched(d, id, movieId) ==
  IF ~HasMeeting(d, id) THEN [db |-> d, status |-> 404]
  ELSE IF movieId # 0 /\ movieId \notin d.movies THEN [db |-> d, status |-> 400]
  ELSE [db |-> SetMeeting(d, id, [MeetingOf(d, id) EXCEPT !.watched_movie_id = movieId]),
        status |-> 200]

\* ------------------------------------------------------------------ movies
\* INSERT INTO movies / collection('movies').add: a fresh id
CreateMovieRow(d) ==
  [db |-> [d EXCEPT !.movies = @ \cup {d.nextMovie}, !.nextMovie = @ + 1],
   status |-> 200]

AllowListKept(m, id) == m

\* allowedIds.filter(mid => mid !== id) on the lists that include id
PruneAllowed(m, id) ==
  IF m.allowed_movie_ids # None /\ id \in Range(m.allowed_movie_ids[1])
  THEN [m EXCEPT !.allowed_movie_ids = Some(FilterSeq(m.allowed_movie_ids[1],
                                             Range(m.allowed_movie_ids[1]) \ {id}))]
  ELSE m

WatchedGuardSkipped(d, id) == FALSE

\* SELECT id FROM meetings WHERE watched_movie_id = ?
IsWatched(d, id) == \E i \in 1..Len(d.meetings) : d.meetings[i].watched_movie_id = id

\* DELETE FROM movies cascades to the ballot_votes rows of the movie
SqlDeleteMovie(d, id) ==
  IF id \notin d.movies THEN [db |-> d, status |-> 404]
  ELSE IF IsWatched(d, id) THEN [db |-> d, status |-> 400]
  ELSE [db |-> [d EXCEPT
            !.meetings = [i \in 1..Len(d.meetings) |-> PruneAllowed(d.meetings[i], id)],
            !.movies = @ \ {id},
            !.ballot_votes = DropRows(@, "movie_id", {id})],
        status |-> 200]

\* the ballots keep their votes for the deleted movie
FsDeleteMovie(d, id) ==
  IF id \notin d.movies THEN [db |-> d, status |-> 404]
  ELSE IF IsWatched(d, id) THEN [db |-> d, status |-> 400]
  ELSE [db |-> [d EXCEPT
            !.meetings = [i \in 1..Len(d.meetings) |-> PruneAllowed(d.meetings[i], id)],
            !.movies = @ \ {id}],
        status |-> 200]

\* ------------------------------------------------------------------ GET /api/results
\* Both queries of the relational backend sum over every ballot_votes row of the
\* movie: the second LEFT JOIN (ballots, with the meeting in its ON clause)
\* keeps the rows of other meetings, with b.* null.  Only COUNT(DISTINCT b.id)
\* is restricted to the meeting.
SqlResultRow(d, m, meetingId) ==
  LET rows == {i \in 1..Len(d.ballot_votes) : d.ballot_votes[i].movie_id = m}
      joined == {d.ballot_votes[i].ballot_id : i \in rows} \cap
                {d.ballots[k].id : k \in {j \in 1..Len(d.ballots) :
                     meetingId = 0 \/ d.ballots[j].meeting_id = meetingId}}
  IN [score |-> SumPoints(d, rows), vote_count |-> Cardinality(rows),
      ballots |-> Cardinality(joined)]

SqlResults(d, meetingId) == [m \in d.movies |-> SqlResultRow(d, m, meetingId)]

RECURSIVE FsCountVotesOffByOne(_, _, _)
FsCountVotesOffByOne(acc, votes, movies) ==
  IF votes = <<>> THEN acc
  ELSE LET v == Head(votes) IN
       FsCountVotesOffByOne(
         IF v.movie_id \in movies
         THEN [acc EXCEPT ![v.movie_id] =
                 [score |-> @.score + (3 - v.rank), vote_count |-> @.vote_count + 1]]
         ELSE acc,
         Tail(votes), movies)

RECURSIVE FsCountVotes(_, _, _)
\* if (movieScores[vote.movie_id] !== undefined) { += score; ++ }
FsCountVotes(acc, votes, movies) ==
  IF votes = <<>> THEN acc
  ELSE LET v == Head(votes) IN
       FsCountVotes(
         IF v.movie_id \in movies
         THEN [acc EXCEPT ![v.movie_id] =
                 [score |-> @.score + (4 - v.rank), vote_count |-> @.vote_count + 1]]
         ELSE acc,
         Tail(votes), movies)

RECURSIVE FsCountBallots(_, _, _)
FsCountBallots(acc, docs, movies) ==
  IF docs = <<>> THEN acc
  ELSE FsCountBallots(FsCountVotes(acc, Head(docs).votes, movies), Tail(docs), movies)

\* if (meetingId) ballotsQuery = ballotsQuery.where('meeting_id', '==', meetingId)
FsResultBallots(d, meetingId) ==
  IF meetingId # 0 THEN BallotsOfMeeting(d, meetingId) ELSE d.ballots

FsResults(d, meetingId) ==
  FsCountBallots([m \in d.movies |-> [score |-> 0, vote_count |-> 0]],
                 FsResultBallots(d, meetingId), d.movies)

Results(b, d, meetingId) ==
  IF b = "sql" THEN SqlResults(d, meetingId) ELSE FsResults(d, meetingId)

\* the rows of the movies in the order of the table (the collection)
ResultRows(b, d, meetingId) ==
  LET res == Results(b, d, meetingId)
      ids == FilterSeq([i \in 1..(d.nextMovie - 1) |-> i], d.movies)
  IN [i \in 1..Len(ids) |->
        [id |-> ids[i], score |-> res[ids[i]].score,
         vote_count |-> res[ids[i]].vote_count]]

\* the comparator of results.sort, which is also ORDER BY score DESC,
\* vote_count DESC: negative when a comes first
CompareRows(a, b) ==
  IF b.score # a.score THEN b.score - a.score ELSE b.vote_count - a.vote_count

RECURSIVE InsertRow(_, _)
InsertRow(sorted, row) ==
  IF sorted = <<>> THEN <<row>>
  ELSE IF CompareRows(Head(sorted), row) <= 0
       THEN <<Head(sorted)>> \o InsertRow(Tail(sorted), row)
       ELSE <<row>> \o sorted

RECURSIVE SortInto(_, _)
SortInto(sorted, rows) ==
  IF rows = <<>> THEN sorted
  ELSE SortInto(InsertRow(sorted, Head(rows)), Tail(rows))

Unsorted(rows) == rows

\* results.sort(...) is stable: rows that compare equal keep their order
SortRows(rows) == SortInto(<<>>, rows)

\* res.json(rows)
ResultList(b, d, meetingId) == SortRows(ResultRows(b, d, meetingId))

\* ------------------------------------------------------------------ GET /api/meetings/:id
\* The row (document) of the meeting and, when watched_movie_id is set, the
\* movie it names (0 when there is no such movie).  The handler adds no other
\* field: date_counts is computed by the list, GET /api/meetings, only.
MeetingResponse(d, id) ==
  LET meeting == MeetingOf(d, id)
  IN [meeting |-> meeting,
      watched_movie |->
        IF meeting.watched_movie_id = 0 THEN None
        ELSE IF meeting.watched_movie_id \in d.movies
             THEN Some(meeting.watched_movie_id) ELSE Some(0),
      date_counts |-> None]

\* ------------------------------------------------------------------ requests
MovieRefs == 0..MaxMovies
MeetingRefs == 0..MaxMeetings

Entry(m, r) == [movieId |-> m, rank |-> r]

\* well-formed ballots: one or two rank entries, with or without availability
SampleBallots ==
  {[ranks |-> <<Entry(1, 1)>>, availability |-> None],
   [ranks |-> <<Entry(2, 3)>>, availability |-> Some(<<"d2">>)],
   [ranks |-> <<Entry(1, 2), Entry(2, 3)>>, availability |-> Some(<<"d1", "d2">>)],
   [ranks |-> <<Entry(MaxMovies, MaxRank)>>, availability |-> Some(<<>>)]}

\* rank lists the validator is to reject
DuplicateRanks ==
  {<<Entry(1, 1), Entry(1, 2)>>, <<Entry(1, 1), Entry(2, 2), Entry(1, 3)>>}
BrokenRanks ==
  {<<Entry(1, 1), Entry(0, 2)>>, <<Entry(1, 1), Entry(2, 0)>>, <<Entry(0, 1)>>}
TooManyRanks == {[i \in 1..(MaxRanks + 1) |-> Entry(1, 1)]}

Request(u, rs, m, a) == [username |-> u, ranks |-> rs, meetingId |-> m, availability |-> a]

\* every sample for the first meeting, one ballot for each of the others
BallotRequests ==
  {Request("ann", b.ranks, 1, b.availability) : b \in SampleBallots}
  \cup {Request("ann", <<Entry(1, 1)>>, m, Some(<<"d1">>)) : m \in 2..MaxMeetings}
  \cup {Request("ann", rs, 1, Some(<<"d1">>)) :
          rs \in DuplicateRanks \cup BrokenRanks \cup TooManyRanks \cup {<<>>}}
  \cup {Request("", <<Entry(1, 1)>>, 1, None), Request("ann", <<Entry(1, 1)>>, 0, None)}

Fields == {"voting_open", "name", "candidate_days", "allowed_movie_ids"}

PatchBody(has, vo, name) ==
  [has |-> has, voting_open |-> vo, name |-> name,
   candidate_days |-> Some(<<"d1", "d2">>), allowed_movie_ids |-> None]

PatchBodies ==
  {PatchBody({"voting_open"}, vo, "") : vo \in BOOLEAN}
  \cup {PatchBody({f}, FALSE, "club") : f \in Fields \ {"voting_open"}}
  \cup {PatchBody({"voting_open", "name"}, FALSE, "club"), PatchBody({}, FALSE, "")}

CreateBody(has, vo, date, watched) ==
  [has |-> has, voting_open |-> vo, name |-> "club", date |-> date,
   candidate_days |-> Some(<<"d1", "d2">>), allowed_movie_ids |-> None,
   watched_movie_id |-> watched]

CreateBodies ==
  {CreateBody({"voting_open"}, TRUE, "", 0), CreateBody({}, FALSE, "d2", 0)}

\* ------------------------------------------------------------------ admin sessions
\* Date.now() counts hours here; the ttl of a token is four of them.
TokenTtl == 4

Passwords == {"a", "b"}

\* a bcrypt hash of a password; "junk" stands for a value that is no hash
HashOf(p) == "$2b$" \o p

\* bcrypt.compare(input, hash); a value that is no hash makes it throw or answer
\* false, and verifyPassword answers false on both
BcryptCompare(inputPassword, storedHash) ==
  storedHash # "junk" /\ storedHash = HashOf(inputPassword)

PlaintextDecides(inputPassword, storedHash, storedPlaintext) ==
  /\ inputPassword # ""
  /\ \/ storedHash # "" /\ BcryptCompare(inputPassword, storedHash)
     \/ storedPlaintext # "" /\ inputPassword = storedPlaintext

\* "" is an unset (or empty) environment variable and a missing password
verifyPassword(inputPassword, storedHash, storedPlaintext) ==
  IF inputPassword = "" THEN FALSE
  ELSE IF storedHash # "" THEN BcryptCompare(inputPassword, storedHash)
  ELSE IF storedPlaintext # "" THEN inputPassword = storedPlaintext
  ELSE FALSE

\* adminTokens maps a token to its expiry, 0 when the token is not in the map.
\* issuedAt, loggedOut and expiredSeen record what happened to each token since
\* its issue and are read by the statements only.
NoSessions(hash, plaintext) ==
  [ADMIN_PASSWORD_HASH |-> hash, ADMIN_PASSWORD_PLAINTEXT |-> plaintext,
   adminTokens |-> [t \in 1..MaxTokens |-> 0], now |-> 0, nextToken |-> 1,
   issuedAt |-> [t \in 1..MaxTokens |-> -1], loggedOut |-> {}, expiredSeen |-> {}]

\* adminTokens.get(token); a token that was never generated is not in the map
TokenExpiry(a, token) == IF token \in 1..MaxTokens THEN a.adminTokens[token] ELSE 0

DeleteToken(a, token) ==
  IF token \in 1..MaxTokens THEN [a EXCEPT !.adminTokens[token] = 0] ELSE a

\* adminTokens.delete(token) on Date.now() > exp
DropExpired(a, token) == [DeleteToken(a, token) EXCEPT !.expiredSeen = @ \cup {token}]

ExpiryIgnored(a, token) == FALSE

\* Date.now() > exp
IsExpired(a, token) == a.now > TokenExpiry(a, token)

AdminUnchecked(a, token) == [auth |-> a, ok |-> TRUE]

\* requireAdmin: token 0 is a request without a token; ok when next() is called
requireAdmin(a, token) ==
  IF token = 0 THEN [auth |-> a, ok |-> FALSE]
  ELSE IF TokenExpiry(a, token) = 0 THEN [auth |-> a, ok |-> FALSE]
  ELSE IF IsExpired(a, token) THEN [auth |-> DropExpired(a, token), ok |-> FALSE]
  ELSE [auth |-> a, ok |-> TRUE]

\* POST /api/admin/login; genToken() gives a token never given before
Login(a, password) ==
  IF ~verifyPassword(password, a.ADMIN_PASSWORD_HASH, a.ADMIN_PASSWORD_PLAINTEXT)
  THEN [auth |-> a, status |-> 401, token |-> 0]
  ELSE [auth |-> [a EXCEPT !.adminTokens[a.nextToken] = a.now + TokenTtl,
                           !.issuedAt[a.nextToken] = a.now,
                           !.nextToken = @ + 1],
        status |-> 200, token |-> a.nextToken]

\* POST /api/admin/logout: if (token) adminTokens.delete(token)
Logout(a, token) ==
  [auth |-> IF token = 0 THEN a
            ELSE [DeleteToken(a, token) EXCEPT
                    !.loggedOut = @ \cup {t \in {token} \cap 1..MaxTokens :
                                             a.issuedAt[t] >= 0}],
   status |-> 200]

\* GET /api/admin/me
Me(a, token) ==
  IF token = 0 THEN [auth |-> a, admin |-> FALSE]
  ELSE IF TokenExpiry(a, token) = 0 THEN [auth |-> a, admin |-> FALSE]
  ELSE IF IsExpired(a, token) THEN [auth |-> DropExpired(a, token), admin |-> FALSE]
  ELSE [auth |-> a, admin |-> TRUE]

\* ------------------------------------------------------------------ resolver errors
\* the statements of the resolver block that can throw
ResolverSteps == {"tally", "date", "scoring", "winner"}

\* The relational block when the statement `step` throws: the availability
\* query, the UPDATE of the date, the top query or the UPDATE of the watched
\* movie.  The statements before it keep their effect (there is no transaction);
\* no outcome when the block does not reach the statement.
SqlResolveFailing(d, id, step) ==
  LET tally == TallyDates(<<>>, WithAvailability(BallotsOfMeeting(d, id)))
      chosenDate == ChooseDate(tally, "", 0)
      m0 == MeetingOf(d, id)
      d1 == IF chosenDate # "" THEN SetMeeting(d, id, [m0 EXCEPT !.date = chosenDate])
            ELSE d
  IN IF step = "tally" THEN {[db |-> d, tally |-> <<>>]}
     ELSE IF step = "date"
          THEN (IF chosenDate # "" THEN {[db |-> d, tally |-> tally]} ELSE {})
     ELSE IF step = "scoring" THEN {[db |-> d1, tally |-> tally]}
     ELSE {[db |-> d1, tally |-> tally] : top \in {t \in SqlTop(d1, id) : SqlHasWinner(t)}}

\* The document block when a statement throws: the two queries, or the single
\* update that writes the date and the watched movie.  Nothing is written
\* before the update.
FsResolveFailing(d, id, step) ==
  {[db |-> d, tally |-> IF step = "tally" THEN <<>> ELSE TallyDates(<<>>, availDocs)] :
     availDocs \in
       {a \in Perms(WithAvailability(BallotsOfMeeting(d, id))) :
          \/ step \in {"tally", "scoring"}
          \/ step = "date" /\ ChooseDate(TallyDates(<<>>, a), "", 0) # ""
          \/ step = "winner" /\ \E voteDocs \in Perms(BallotsOfMeeting(d, id)) :
               LET top == FsTopMovie(FsScores(<<>>, voteDocs), FsNoTop)
               IN top.movie_id # 0 /\ top.vote_count > 0}}

ResolverErrorFailsRequest(before, partial) == [db |-> before, status |-> 500]

\* catch (e) { /* ignore selection errors */ }, then the meeting is read and
\* returned: what the block wrote stays, the response is a success
AfterResolverError(before, partial) == [db |-> partial, status |-> 200]

\* the handler on a request that closes voting while the resolver throws at
\* step; no outcome for a request that does not run the resolver
SqlPatchMeetingFailing(d, id, body, step) ==
  IF ~HasMeeting(d, id) \/ body.has = {} THEN {}
  ELSE
    LET meeting == MeetingOf(d, id)
        updated == SetMeeting(d, id, SqlUpdateFields(meeting, body))
    IN IF WillCloseVoting(meeting.voting_open, body)
       THEN {[db |-> AfterResolverError(d, o.db).db,
              status |-> AfterResolverError(d, o.db).status,
              resolved |-> 1, tally |-> o.tally] :
               o \in SqlResolveFailing(updated, id, step)}
       ELSE {}

FsPatchMeetingFailing(d, id, body, step) ==
  IF ~HasMeeting(d, id) \/ body.has = {} THEN {}
  ELSE
    LET currentData == MeetingOf(d, id)
        updated == SetMeeting(d, id, FsUpdateFields(currentData, body))
    IN IF WillCloseVoting(currentData.voting_open, body)
       THEN {[db |-> AfterResolverError(d, o.db).db,
              status |-> AfterResolverError(d, o.db).status,
              resolved |-> 1, tally |-> o.tally] :
               o \in FsResolveFailing(updated, id, step)}
       ELSE {}

\* ------------------------------------------------------------------ actions
\* lastOp records the last request: the handler, the status of its response, the
\* meeting or movie it addressed (0 where the statements below need none), what
\* the request looked like (tags), the number of rank entries it carried (n),
\* how many times the resolver ran, the tally the resolver built, the admin
\* token the request carried (0 for none) and the password a login carried.
Op(op, status, id, tags) ==
  [op |-> op, status |-> status, id |-> id, tags |-> tags, n |-> 0,
   resolved |-> 0, tally |-> <<>>, token |-> 0, password |-> ""]

\* a handler of the document backend that is not running
Idle == [kind |-> "idle"]

NoRequests == [p \in 1..MaxInflight |-> Idle]

\* both environment variables are set, to different passwords
Init ==
  /\ backend \in Backends
  /\ db = EmptyDb
  /\ auth = NoSessions(HashOf("a"), "b")
  /\ lastOp = Op("init", 0, 0, {})
  /\ inflight = NoRequests
  /\ twin = EmptyDb

\* what the request looks like, for the statements below
RequestTags(d, r) ==
  (IF r.username = "" THEN {"no name"} ELSE {})
  \cup (IF ~HasMeeting(d, r.meetingId) THEN {"no meeting"}
        ELSE IF ~MeetingOf(d, r.meetingId).voting_open THEN {"closed"} ELSE {})
  \cup (IF r.ranks = <<>> THEN {"no ranks"} ELSE {})
  \cup (IF Len(r.ranks) > 3 THEN {"too many ranks"} ELSE {})
  \cup (IF \E i, j \in 1..Len(r.ranks) : i < j /\ r.ranks[i].movieId = r.ranks[j].movieId
        THEN {"same movie twice"} ELSE {})
  \cup (IF \E i \in 1..Len(r.ranks) : r.ranks[i].movieId = 0 \/ r.ranks[i].rank = 0
        THEN {"broken entry"} ELSE {})

PatchTags(d, id, body) ==
  (IF "voting_open" \notin body.has THEN {"voting_open omitted"}
   ELSE IF body.voting_open THEN {"voting_open true"} ELSE {"voting_open false"})
  \cup (IF ~HasMeeting(d, id) THEN {"no meeting"}
        ELSE IF MeetingOf(d, id).voting_open THEN {"was open"} ELSE {"was closed"})

CreateTags(body) ==
  IF "voting_open" \notin body.has THEN {"voting_open omitted"} ELSE {}

\* the tokens requests carry: the admin client sends the first token issued;
\* any client may send no token (0) or a token, before it is issued (when it is
\* not in the map) or after
SessionTokens == {1}
PresentedTokens == 0..MaxTokens

\* requireAdmin answered 401 and the handler did not run
Denied(op, id, token, gate) ==
  /\ db' = db
  /\ auth' = gate.auth
  /\ lastOp' = [Op(op, 401, id, {}) EXCEPT !.token = token]
  /\ UNCHANGED <<twin, inflight, backend>>

SubmitBallotBy(requests) ==
  \E r \in requests :
    LET out == IF backend = "sql"
               THEN SqlSubmitBallot(db, r.username, r.ranks, r.meetingId, r.availability)
               ELSE FsSubmitBallot(db, r.username, r.ranks, r.meetingId, r.availability)
    IN /\ out.status # 200 \/ db.nextBallot <= MaxBallots
       /\ db' = out.db
       /\ lastOp' = [Op("submitBallot", out.status, 0, RequestTags(db, r)) EXCEPT
                       !.n = Len(r.ranks)]
       /\ UNCHANGED <<twin, inflight, backend, auth>>

PatchMeetingBy(tokens, ids, bodies) ==
  \E token \in tokens, id \in ids, body \in bodies :
    LET gate == requireAdmin(auth, token) IN
    IF ~gate.ok THEN Denied("patchMeeting", id, token, gate)
    ELSE
      \E out \in (IF backend = "sql" THEN SqlPatchMeeting(db, id, body)
                  ELSE FsPatchMeeting(db, id, body)) :
        /\ db' = out.db
        /\ lastOp' = [Op("patchMeeting", out.status, id, PatchTags(db, id, body)) EXCEPT
                        !.resolved = out.resolved, !.tally = out.tally, !.token = token]
        /\ UNCHANGED <<twin, inflight, backend, auth>>

\* a PATCH during which a statement of the resolver throws
PatchMeetingFailing ==
  \E token \in SessionTokens, id \in 1..MaxMeetings, body \in PatchBodies,
     step \in ResolverSteps :
    /\ requireAdmin(auth, token).ok
    /\ \E out \in (IF backend = "sql" THEN SqlPatchMeetingFailing(db, id, body, step)
                   ELSE FsPatchMeetingFailing(db, id, body, step)) :
         /\ db' = out.db
         /\ lastOp' = [Op("patchMeeting", out.status, id,
                          PatchTags(db, id, body) \cup {"resolver failed"}) EXCEPT
                         !.resolved = out.resolved, !.tally = out.tally, !.token = token]
         /\ UNCHANGED <<twin, inflight, backend, auth>>

CreateMeetingBy(tokens, bodies, limit) ==
  \E token \in tokens, body \in bodies :
    LET gate == requireAdmin(auth, token) IN
    IF ~gate.ok THEN Denied("createMeeting", 0, token, gate)
    ELSE
      LET out == IF backend = "sql" THEN SqlCreateMeeting(db, body)
                 ELSE FsCreateMeeting(db, body)
      IN /\ db.nextMeeting <= limit
         /\ db' = out.db
         /\ lastOp' = [Op("createMeeting", out.status, 0, CreateTags(body)) EXCEPT
                         !.token = token]
         /\ UNCHANGED <<twin, inflight, backend, auth>>

DeleteMeetingBy(tokens, ids) ==
  \E token \in tokens, id \in ids :
    LET gate == requireAdmin(auth, token) IN
    IF ~gate.ok THEN Denied("deleteMeeting", 0, token, gate)
    ELSE
      LET out == IF backend = "sql" THEN SqlDeleteMeeting(db, id)
                 ELSE FsDeleteMeeting(db, id)
      IN /\ db' = out.db
         /\ lastOp' = [Op("deleteMeeting", out.status, 0, {}) EXCEPT !.token = token]
         /\ UNCHANGED <<twin, inflight, backend, auth>>

MarkWatchedBy(tokens, ids, movieIds) ==
  \E token \in tokens, id \in ids, movieId \in movieIds :
    LET gate == requireAdmin(auth, token) IN
    IF ~gate.ok THEN Denied("markWatched", id, token, gate)
    ELSE
      LET out == MarkWatched(db, id, movieId)
      IN /\ db' = out.db
         /\ lastOp' = [Op("markWatched", out.status, id, {}) EXCEPT !.token = token]
         /\ UNCHANGED <<twin, inflight, backend, auth>>

\* POST /api/movies has no requireAdmin: the token of the request is not read
CreateMovieBy(tokens) ==
  \E token \in tokens :
    /\ db.nextMovie <= MaxMovies
    /\ db' = CreateMovieRow(db).db
    /\ lastOp' = [Op("createMovie", 200, 0, {}) EXCEPT !.token = token]
    /\ UNCHANGED <<twin, inflight, backend, auth>>

DeleteMovieTags(d, id) ==
  (IF id \notin d.movies THEN {"no movie"} ELSE {})
  \cup (IF IsWatched(d, id) THEN {"watched"} ELSE {})

DeleteMovieBy(tokens, ids) ==
  \E token \in tokens, id \in ids :
    LET gate == requireAdmin(auth, token) IN
    IF ~gate.ok THEN Denied("deleteMovie", id, token, gate)
    ELSE
      LET out == IF backend = "sql" THEN SqlDeleteMovie(db, id) ELSE FsDeleteMovie(db, id)
      IN /\ db' = out.db
         /\ lastOp' = [Op("deleteMovie", out.status, id, DeleteMovieTags(db, id)) EXCEPT
                         !.token = token]
         /\ UNCHANGED <<twin, inflight, backend, auth>>

LoginBy(passwords) ==
  \E password \in passwords :
    /\ verifyPassword(password, auth.ADMIN_PASSWORD_HASH, auth.ADMIN_PASSWORD_PLAINTEXT)
         => auth.nextToken <= MaxTokens
    /\ LET out == Login(auth, password) IN
       /\ auth' = out.auth
       /\ lastOp' = [Op("login", out.status, 0, {}) EXCEPT !.token = out.token,
                                                          !.password = password]
       /\ UNCHANGED <<twin, inflight, backend, db>>

\* ---- the requests of the club: the admin logs in and works with that token
SubmitBallot == SubmitBallotBy(BallotRequests)

PatchMeeting == PatchMeetingBy(SessionTokens, 1..MaxMeetings, PatchBodies)

CreateMeeting == CreateMeetingBy(SessionTokens, CreateBodies, MaxMeetings)

DeleteMeeting == DeleteMeetingBy(SessionTokens, 1..MaxMeetings)

MarkWatchedMovie == MarkWatchedBy(SessionTokens, {1}, MovieRefs)

CreateMovie == CreateMovieBy({0})

DeleteMovie == DeleteMovieBy(SessionTokens, {MaxMovies})

AdminLogin == LoginBy({"a"})

\* the reads write nothing
GetResults ==
  \E meetingId \in MeetingRefs :
    /\ lastOp' = Op("getResults", 200, meetingId, {})
    /\ UNCHANGED <<twin, inflight, backend, db, auth>>

GetMeeting ==
  \E id \in 1..MaxMeetings :
    /\ lastOp' = Op("getMeeting", IF HasMeeting(db, id) THEN 200 ELSE 404, 0, {})
    /\ UNCHANGED <<twin, inflight, backend, db, auth>>

GetMeetings ==
  /\ lastOp' = Op("getMeetings", 200, 0, {})
  /\ UNCHANGED <<twin, inflight, backend, db, auth>>

Next ==
  \/ AdminLogin
  \/ SubmitBallot
  \/ PatchMeeting
  \/ CreateMeeting
  \/ DeleteMeeting
  \/ MarkWatchedMovie
  \/ CreateMovie
  \/ DeleteMovie
  \/ GetResults
  \/ GetMeeting
  \/ GetMeetings

Spec == Init /\ [][Next]_vars

\* the requests that lead to a resolution, when the storage can fail while the
\* resolver runs
FaultNext ==
  \/ AdminLogin
  \/ CreateMovie
  \/ CreateMeeting
  \/ SubmitBallot
  \/ PatchMeeting
  \/ PatchMeetingFailing

FaultSpec == Init /\ [][FaultNext]_vars

\* ---- any client with any token, while time passes
AdminBallots == {Request("ann", <<Entry(1, 1)>>, 1, Some(<<"d1">>))}

\* meetings with an allow-list
AllowListBodies ==
  {[CreateBody({"voting_open"}, TRUE, "", 0) EXCEPT !.allowed_movie_ids = Some(<<1, 2>>)]}

AdminPatchBodies == {PatchBody({"voting_open"}, vo, "") : vo \in BOOLEAN}

AnyLogin == LoginBy(Passwords \cup {""})

AnyLogout ==
  \E token \in PresentedTokens :
    LET out == Logout(auth, token)
    IN /\ auth' = out.auth
       /\ lastOp' = [Op("logout", out.status, 0, {}) EXCEPT !.token = token]
       /\ UNCHANGED <<twin, inflight, backend, db>>

AnyMe ==
  \E token \in PresentedTokens :
    LET out == Me(auth, token)
    IN /\ auth' = out.auth
       /\ lastOp' = [Op("me", 200, 0, IF out.admin THEN {"admin"} ELSE {}) EXCEPT
                       !.token = token]
       /\ UNCHANGED <<twin, inflight, backend, db>>

\* an hour passes
Tick ==
  /\ auth.now < MaxTime
  /\ auth' = [auth EXCEPT !.now = @ + 1]
  /\ lastOp' = Op("tick", 0, 0, {})
  /\ UNCHANGED <<twin, inflight, backend, db>>

AnySubmitBallot == SubmitBallotBy(AdminBallots)

AnyPatchMeeting == PatchMeetingBy(PresentedTokens, {1}, AdminPatchBodies)

AnyCreateMeeting == CreateMeetingBy(PresentedTokens, AllowListBodies, AdminMeetings)

AnyDeleteMeeting == DeleteMeetingBy(PresentedTokens, {1})

AnyMarkWatched == MarkWatchedBy(PresentedTokens, {1}, MovieRefs)

AnyCreateMovie == CreateMovieBy(PresentedTokens)

AnyDeleteMovie == DeleteMovieBy(PresentedTokens, 1..MaxMovies)

AdminNext ==
  \/ AnyLogin
  \/ AnyLogout
  \/ AnyMe
  \/ Tick
  \/ AnySubmitBallot
  \/ AnyPatchMeeting
  \/ AnyCreateMeeting
  \/ AnyDeleteMeeting
  \/ AnyMarkWatched
  \/ AnyCreateMovie
  \/ AnyDeleteMovie

AdminSpec == Init /\ [][AdminNext]_vars

\* ---- the server under every configuration of the two password variables:
\* server.js refuses to start when neither is set, the cloud function only warns
StoredHashes == {"", "junk"} \cup {HashOf(p) : p \in Passwords}

StoredPlaintexts == {""} \cup Passwords

PasswordInit ==
  /\ backend \in Backends
  /\ db = EmptyDb
  /\ \E hash \in StoredHashes, plaintext \in StoredPlaintexts :
       /\ backend = "sql" => (hash # "" \/ plaintext # "")
       /\ auth = NoSessions(hash, plaintext)
  /\ lastOp = Op("init", 0, 0, {})
  /\ inflight = NoRequests
  /\ twin = EmptyDb

PasswordNext ==
  \/ AnyLogin
  \/ AnyLogout
  \/ AnyMe
  \/ Tick

PasswordSpec == PasswordInit /\ [][PasswordNext]_vars

\* ------------------------------------------------------------------ requests in flight
\* The handlers of the relational backend are synchronous: each runs to its
\* response before another request is looked at.  The handlers of the document
\* backend are async and give way at every await, so other requests run
\* between their reads and writes.  inflight[p] is a running handler of the
\* document backend: what it is (kind), the await it stands at (pc) and its
\* local variables.  seen is the database as it was when the handler started;
\* it is read by the statements only.
Procs == 1..MaxInflight

RaceBallots ==
  {Request("ann", <<Entry(1, 1)>>, 1, Some(<<"d1">>)),
   Request("bob", <<Entry(2, 1), Entry(1, 3)>>, 1, Some(<<"d2", "d1">>))}

RaceBodies == {CreateBody({"voting_open"}, TRUE, "", 0)}

CloseBody == PatchBody({"voting_open"}, FALSE, "")

Respond(p, op, status, id) ==
  /\ inflight' = [inflight EXCEPT ![p] = Idle]
  /\ lastOp' = [Op(op, status, id, {"in flight"}) EXCEPT !.n = p]

\* POST /api/votes up to its first await: the checks of the request and of the
\* meeting read by meetingDoc.get()
VoteRead ==
  \E p \in Procs, r \in RaceBallots :
    /\ backend = "fs" /\ inflight[p] = Idle
    /\ LET out == FsSubmitBallot(db, r.username, r.ranks, r.meetingId, r.availability)
       IN IF out.status # 200
          THEN /\ lastOp' = [Op("submitBallot", out.status, r.meetingId, {"in flight"})
                               EXCEPT !.n = p]
               /\ UNCHANGED inflight
          ELSE /\ inflight' = [inflight EXCEPT ![p] = [kind |-> "vote", pc |-> "add", r |-> r]]
               /\ UNCHANGED lastOp
    /\ UNCHANGED <<twin, backend, db, auth>>

\* await db.collection('ballots').add(ballotDoc); res.json(...)
VoteAdd ==
  \E p \in Procs :
    /\ inflight[p].kind = "vote" /\ inflight[p].pc = "add"
    /\ db.nextBallot <= MaxBallots
    /\ LET r == inflight[p].r
       IN /\ db' = FsAddBallot(db, r.username, r.ranks, r.meetingId, r.availability)
          /\ Respond(p, "submitBallot", 200, r.meetingId)
    /\ UNCHANGED <<twin, backend, auth>>

\* PATCH /api/meetings/:id up to the update: requireAdmin, meetingDoc.get(),
\* prevVotingOpen, the updates object and willCloseVoting
PatchRead ==
  \E p \in Procs, token \in SessionTokens, id \in {1} :
    /\ backend = "fs" /\ inflight[p] = Idle
    /\ requireAdmin(auth, token).ok
    /\ IF ~HasMeeting(db, id)
       THEN /\ lastOp' = [Op("patchMeeting", 404, id, {"in flight"}) EXCEPT !.n = p]
            /\ UNCHANGED inflight
       ELSE /\ inflight' = [inflight EXCEPT ![p] =
                 [kind |-> "patch", pc |-> "update", id |-> id, body |-> CloseBody,
                  willCloseVoting |->
                    WillCloseVoting(MeetingOf(db, id).voting_open, CloseBody),
                  chosenDate |-> "", top |-> FsNoTop, seen |-> db]]
            /\ UNCHANGED lastOp
    /\ UNCHANGED <<twin, backend, db, auth>>

\* await db.collection('meetings').doc(id).update(updates): it throws when the
\* document is gone, and the outer catch answers 500
PatchUpdate ==
  \E p \in Procs :
    /\ inflight[p].kind = "patch" /\ inflight[p].pc = "update"
    /\ LET q == inflight[p] IN
       IF ~HasMeeting(db, q.id)
       THEN /\ db' = db
            /\ Respond(p, "patchMeeting", 500, q.id)
       ELSE /\ db' = SetMeeting(db, q.id, FsUpdateFields(MeetingOf(db, q.id), q.body))
            /\ IF q.willCloseVoting
               THEN /\ inflight' = [inflight EXCEPT ![p].pc = "dates"]
                    /\ UNCHANGED lastOp
               ELSE Respond(p, "patchMeeting", 200, q.id)
    /\ UNCHANGED <<twin, backend, auth>>

\* the query of the ballots with an availability, and the date chosen from it
PatchDates ==
  \E p \in Procs :
    /\ inflight[p].kind = "patch" /\ inflight[p].pc = "dates"
    /\ \E availDocs \in Perms(WithAvailability(BallotsOfMeeting(db, inflight[p].id))) :
         inflight' = [inflight EXCEPT
           ![p].pc = "votes",
           ![p].chosenDate = ChooseDate(TallyDates(<<>>, availDocs), "", 0)]
    /\ UNCHANGED <<twin, backend, db, auth, lastOp>>

\* the query of the ballots of the meeting, and the top movie found in it
PatchVotes ==
  \E p \in Procs :
    /\ inflight[p].kind = "patch" /\ inflight[p].pc = "votes"
    /\ \E voteDocs \in Perms(BallotsOfMeeting(db, inflight[p].id)) :
         inflight' = [inflight EXCEPT
           ![p].pc = "auto",
           ![p].top = FsTopMovie(FsScores(<<>>, voteDocs), FsNoTop)]
    /\ UNCHANGED <<twin, backend, db, auth, lastOp>>

PatchAutoWritesWholeDoc ==
  \E p \in Procs :
    /\ inflight[p].kind = "patch" /\ inflight[p].pc = "auto"
    /\ LET q == inflight[p]
           stale == SetMeeting(db, q.id, MeetingOf(q.seen, q.id))
       IN /\ db' = FsAutoUpdates(stale, q.id, q.chosenDate, q.top)
          /\ Respond(p, "patchMeeting", 200, q.id)
    /\ UNCHANGED <<twin, backend, auth>>

\* update(autoUpdates); when the document is gone it throws inside the inner
\* try, which ignores it.  The response follows.
PatchAuto ==
  \E p \in Procs :
    /\ inflight[p].kind = "patch" /\ inflight[p].pc = "auto"
    /\ LET q == inflight[p]
       IN /\ db' = FsAutoUpdates(db, q.id, q.chosenDate, q.top)
          /\ Respond(p, "patchMeeting", 200, q.id)
    /\ UNCHANGED <<twin, backend, auth>>

\* DELETE /api/meetings/:id up to the query: requireAdmin and meetingDoc.get()
DeleteRead ==
  \E p \in Procs, token \in SessionTokens, id \in {1} :
    /\ backend = "fs" /\ inflight[p] = Idle
    /\ requireAdmin(auth, token).ok
    /\ IF ~HasMeeting(db, id)
       THEN /\ lastOp' = [Op("deleteMeeting", 404, id, {"in flight"}) EXCEPT !.n = p]
            /\ UNCHANGED inflight
       ELSE /\ inflight' = [inflight EXCEPT ![p] =
                 [kind |-> "delete", pc |-> "query", id |-> id, docs |-> {}]]
            /\ UNCHANGED lastOp
    /\ UNCHANGED <<twin, backend, db, auth>>

\* the query of the ballots of the meeting; each is put in the batch
DeleteQuery ==
  \E p \in Procs :
    /\ inflight[p].kind = "delete" /\ inflight[p].pc = "query"
    /\ inflight' = [inflight EXCEPT
         ![p].pc = "commit",
         ![p].docs = {b.id : b \in Range(BallotsOfMeeting(db, inflight[p].id))}]
    /\ UNCHANGED <<twin, backend, db, auth, lastOp>>

\* batch.commit(): the ballots the query returned and the meeting are deleted
DeleteCommit ==
  \E p \in Procs :
    /\ inflight[p].kind = "delete" /\ inflight[p].pc = "commit"
    /\ LET q == inflight[p]
       IN /\ db' = [db EXCEPT !.ballots = DropRows(@, "id", q.docs),
                              !.meetings = DropRows(@, "id", {q.id})]
          /\ Respond(p, "deleteMeeting", 200, q.id)
    /\ UNCHANGED <<twin, backend, auth>>

\* the same requests on the relational backend, each in one step
SqlSubmitBallotNow == backend = "sql" /\ SubmitBallotBy(RaceBallots)

SqlCloseNow == backend = "sql" /\ PatchMeetingBy(SessionTokens, {1}, {CloseBody})

SqlDeleteNow == backend = "sql" /\ DeleteMeetingBy(SessionTokens, {1})

RaceCreateMeeting == CreateMeetingBy(SessionTokens, RaceBodies, AdminMeetings)

RaceNext ==
  \/ AdminLogin
  \/ CreateMovie
  \/ RaceCreateMeeting
  \/ SqlSubmitBallotNow
  \/ SqlCloseNow
  \/ SqlDeleteNow
  \/ VoteRead
  \/ VoteAdd
  \/ PatchRead
  \/ PatchUpdate
  \/ PatchDates
  \/ PatchVotes
  \/ PatchAuto
  \/ DeleteRead
  \/ DeleteQuery
  \/ DeleteCommit

RaceSpec == Init /\ [][RaceNext]_vars

\* ------------------------------------------------------------------ the two backends side by side
\* The same requests are given to the relational server, whose tables are db,
\* and to the document function, whose collections are twin.  Meetings get
\* the same ids in both, in the order of their creation.
EquivBallots == RaceBallots \cup {Request("cy", <<Entry(2, 2)>>, 2, Some(<<"d2">>))}

\* the second body offers one candidate day only
EquivBodies ==
  RaceBodies \cup {[CreateBody({"voting_open"}, TRUE, "", 0) EXCEPT
                      !.candidate_days = Some(<<"d1">>)]}

EquivInit ==
  /\ backend = "sql"
  /\ db = EmptyDb
  /\ twin = EmptyDb
  /\ auth = NoSessions(HashOf("a"), "b")
  /\ lastOp = Op("init", 0, 0, {})
  /\ inflight = NoRequests

BothCreateMovie ==
  /\ db.nextMovie <= MaxMovies
  /\ db' = CreateMovieRow(db).db
  /\ twin' = CreateMovieRow(twin).db
  /\ lastOp' = Op("createMovie", 200, 0, {})
  /\ UNCHANGED <<backend, auth, inflight>>

BothCreateMeeting ==
  \E token \in SessionTokens, body \in EquivBodies :
    /\ requireAdmin(auth, token).ok
    /\ db.nextMeeting <= MaxMeetings
    /\ db' = SqlCreateMeeting(db, body).db
    /\ twin' = FsCreateMeeting(twin, body).db
    /\ lastOp' = [Op("createMeeting", SqlCreateMeeting(db, body).status, 0, {})
                    EXCEPT !.token = token]
    /\ UNCHANGED <<backend, auth, inflight>>

BothSubmitBallot ==
  \E r \in EquivBallots :
    LET sql == SqlSubmitBallot(db, r.username, r.ranks, r.meetingId, r.availability)
        fs == FsSubmitBallot(twin, r.username, r.ranks, r.meetingId, r.availability)
    IN /\ sql.status # 200 \/ db.nextBallot <= MaxBallots
       /\ fs.status # 200 \/ twin.nextBallot <= MaxBallots
       /\ db' = sql.db
       /\ twin' = fs.db
       /\ lastOp' = [Op("submitBallot", sql.status, r.meetingId, {}) EXCEPT
                       !.n = Len(r.ranks)]
       /\ UNCHANGED <<backend, auth, inflight>>

BothCloseVoting ==
  \E token \in SessionTokens, id \in 1..MaxMeetings :
    /\ requireAdmin(auth, token).ok
    /\ \E sql \in SqlPatchMeeting(db, id, CloseBody), fs \in FsPatchMeeting(twin, id, CloseBody) :
         /\ db' = sql.db
         /\ twin' = fs.db
         /\ lastOp' = [Op("patchMeeting", sql.status, id, PatchTags(db, id, CloseBody))
                         EXCEPT !.resolved = sql.resolved, !.tally = sql.tally,
                                !.token = token]
    /\ UNCHANGED <<backend, auth, inflight>>

EquivNext ==
  \/ AdminLogin
  \/ BothCreateMovie
  \/ BothCreateMeeting
  \/ BothSubmitBallot
  \/ BothCloseVoting

EquivSpec == EquivInit /\ [][EquivNext]_vars

\* ------------------------------------------------------------------ statements
\* The rank entries of the ballots cast in a meeting (of every ballot when
\* meetingId is 0), whatever the backend keeps them in.
RankEntries(meetingId) ==
  IF backend = "sql"
  THEN {[key |-> <<db.ballot_votes[i].ballot_id, i>>,
         movie |-> db.ballot_votes[i].movie_id, rank |-> db.ballot_votes[i].rank] :
          i \in {k \in 1..Len(db.ballot_votes) :
                   \E j \in 1..Len(db.ballots) :
                     /\ db.ballots[j].id = db.ballot_votes[k].ballot_id
                     /\ meetingId \in {0, db.ballots[j].meeting_id}}}
  ELSE UNION {{[key |-> <<db.ballots[j].id, i>>,
                movie |-> db.ballots[j].votes[i].movie_id,
                rank |-> db.ballots[j].votes[i].rank] :
                 i \in 1..Len(db.ballots[j].votes)} :
              j \in {k \in 1..Len(db.ballots) :
                       meetingId \in {0, db.ballots[k].meeting_id}}}

RECURSIVE BordaSum(_)
\* the sum of (4 - rank) over a set of rank entries
BordaSum(entries) ==
  IF entries = {} THEN 0
  ELSE LET e == CHOOSE x \in entries : TRUE
       IN (4 - e.rank) + BordaSum(entries \ {e})

EntriesOf(meetingId, m) == {e \in RankEntries(meetingId) : e.movie = m}
BordaScore(meetingId, m) == BordaSum(EntriesOf(meetingId, m))
VoteCount(meetingId, m) == Cardinality(EntriesOf(meetingId, m))

\* the step is a closeVoting of the meeting lastOp'.id: an update that sets
\* voting_open to false on a meeting that was open
IsCloseVoting(op) ==
  /\ op.op = "patchMeeting" /\ op.status = 200
  /\ {"voting_open false", "was open"} \subseteq op.tags

\* C1: a ballot for a meeting whose voting_open is false is rejected, and the
\* ballots and rank entries stay as they were.
C1_ClosedMeetingRejectsBallot ==
  [][(lastOp'.op = "submitBallot" /\ "closed" \in lastOp'.tags)
       => (lastOp'.status = 400 /\ db' = db)]_vars

\* an otherwise valid ballot was refused for a meeting that took a ballot while
\* it was open and has been closed since
C1_Witness ==
  /\ lastOp.op = "submitBallot" /\ lastOp.tags = {"closed"} /\ lastOp.status = 400
  /\ HasMeeting(db, 1) /\ ~MeetingOf(db, 1).voting_open
  /\ BallotsOfMeeting(db, 1) # <<>>
  /\ db.movies = 1..MaxMovies

\* C2: the resolver runs in an update exactly when the update sets voting_open
\* to false on a meeting stored as open, and then once; no read runs it.
C2_ResolverRunsOnlyOnClose ==
  /\ lastOp.op = "patchMeeting" =>
       /\ lastOp.resolved \in {0, 1}
       /\ lastOp.resolved = 1 <=> {"voting_open false", "was open"} \subseteq lastOp.tags
  /\ lastOp.op \in {"getMeeting", "getMeetings", "getResults"} => lastOp.resolved = 0

C2_Witness ==
  /\ lastOp.op = "patchMeeting" /\ lastOp.resolved = 1
  /\ BallotsOfMeeting(db, lastOp.id) # <<>>

\* every movie a ballot of the meeting ranks, and every movie that exists
Candidates(meetingId) == db.movies \cup {e.movie : e \in RankEntries(meetingId)}

\* C3: after closeVoting on an open meeting with at least one ballot, the
\* watched movie has a rank entry in the meeting, no movie has a higher score
\* there, and no movie has the same score with more votes.
C3_WinnerIsMaximal ==
  [][(IsCloseVoting(lastOp') /\ BallotsOfMeeting(db, lastOp'.id) # <<>>)
       => LET id == lastOp'.id
              w == MeetingOf(db', id).watched_movie_id
          IN /\ VoteCount(id, w) >= 1
             /\ \A m \in Candidates(id) :
                  /\ BordaScore(id, m) <= BordaScore(id, w)
                  /\ BordaScore(id, m) = BordaScore(id, w)
                       => VoteCount(id, m) <= VoteCount(id, w)]_vars

\* C4: closeVoting on a meeting without ballots leaves watched_movie_id as it
\* was.
C4_NoBallotsKeepsWatched ==
  [][(IsCloseVoting(lastOp') /\ BallotsOfMeeting(db, lastOp'.id) = <<>>)
       => MeetingOf(db', lastOp'.id).watched_movie_id
            = MeetingOf(db, lastOp'.id).watched_movie_id]_vars

\* a meeting with a watched movie and no ballot was closed while movies and a
\* ballot of another meeting exist
C4_Witness ==
  /\ IsCloseVoting(lastOp)
  /\ BallotsOfMeeting(db, lastOp.id) = <<>>
  /\ MeetingOf(db, lastOp.id).watched_movie_id = MaxMovies
  /\ db.movies = 1..MaxMovies
  /\ db.ballots # <<>>

\* how many times the ballots of the meeting list the date
RECURSIVE Occurrences(_, _)
Occurrences(dates, date) ==
  IF dates = <<>> THEN 0
  ELSE (IF Head(dates) = date THEN 1 ELSE 0) + Occurrences(Tail(dates), date)

RECURSIVE ListedBy(_, _)
ListedBy(ballots, date) ==
  IF ballots = <<>> THEN 0
  ELSE (IF Head(ballots).availability = None THEN 0
        ELSE Occurrences(Head(ballots).availability[1], date))
       + ListedBy(Tail(ballots), date)

DateCount(meetingId, date) == ListedBy(BallotsOfMeeting(db, meetingId), date)

C5_WitnessNoAvailability ==
  /\ IsCloseVoting(lastOp)
  /\ lastOp.tally = <<>>
  /\ BallotsOfMeeting(db, lastOp.id) # <<>>
  /\ MeetingOf(db, lastOp.id).date # ""

\* C6: the results over all ballots give every movie the sum of 4 - rank over
\* the rank entries that reference it as its score and the number of those
\* entries as its vote count; availability and voter names play no part.
C6_BordaScoreIsSumOfPoints ==
  (lastOp.op = "getResults" /\ lastOp.id = 0)
    => \A m \in db.movies :
         /\ Results(backend, db, 0)[m].score = BordaScore(0, m)
         /\ Results(backend, db, 0)[m].vote_count = VoteCount(0, m)

\* results were read while a movie has two rank entries from ballots that
\* differ in availability
C6_Witness ==
  /\ lastOp.op = "getResults" /\ lastOp.id = 0
  /\ \E m \in db.movies : VoteCount(0, m) = 2 /\ BordaScore(0, m) = 2
  /\ \E i, j \in 1..Len(db.ballots) : db.ballots[i].availability # db.ballots[j].availability

\* C7: the results of a meeting give every movie the sum of 4 - rank over the
\* rank entries of the ballots cast in that meeting, and the number of those
\* entries; ballots of other meetings add nothing.
C7_ScopedResultsCountOnlyTheMeeting ==
  (lastOp.op = "getResults" /\ lastOp.id # 0)
    => \A m \in db.movies :
         /\ Results(backend, db, lastOp.id)[m].score = BordaScore(lastOp.id, m)
         /\ Results(backend, db, lastOp.id)[m].vote_count = VoteCount(lastOp.id, m)

\* C8: a ballot that names the same movie in two rank entries is rejected, and
\* no ballot and no rank entry of it is stored.
C8_DuplicateMovieRejected ==
  [][(lastOp'.op = "submitBallot" /\ "same movie twice" \in lastOp'.tags)
       => (lastOp'.status = 400 /\ db' = db)]_vars

\* the only defect of the refused ballot is the repeated movie: the meeting is
\* open and the movies it names exist
C8_Witness ==
  /\ lastOp.op = "submitBallot" /\ lastOp.tags = {"same movie twice"}
  /\ lastOp.n = 3 /\ lastOp.status = 400
  /\ db.movies = 1..MaxMovies

ValidationDefects ==
  {"no name", "no ranks", "too many ranks", "no meeting", "broken entry"}

\* C9: a ballot refused because the name is missing, the rank list is empty or
\* longer than three, the meeting does not exist or an entry lacks its rank or
\* its movie leaves ballots and rank entries as they were; a submission stores
\* the ballot with all its rank entries or stores nothing.
C9_BallotIsAllOrNothing ==
  [][lastOp'.op = "submitBallot"
       => /\ (lastOp'.tags \cap ValidationDefects # {}) => lastOp'.status = 400
          /\ lastOp'.status # 200 => db' = db
          /\ lastOp'.status = 200 =>
               /\ Len(db'.ballots) = Len(db.ballots) + 1
               /\ backend = "sql" =>
                    Len(db'.ballot_votes) = Len(db.ballot_votes) + lastOp'.n
               /\ backend = "fs" =>
                    Len(db'.ballots[Len(db'.ballots)].votes) = lastOp'.n]_vars

\* the relational backend refused a ballot whose second entry is broken after a
\* first entry that could be stored
C9_Witness ==
  /\ backend = "sql"
  /\ lastOp.op = "submitBallot" /\ lastOp.tags = {"broken entry"}
  /\ lastOp.n = 2 /\ lastOp.status = 400
  /\ 1 \in db.movies

IsReopen(op) ==
  /\ op.op = "patchMeeting" /\ op.status = 200
  /\ {"voting_open true", "was closed"} \subseteq op.tags

\* C10: re-opening a meeting leaves its watched movie and its date as they
\* were, and afterwards the watched movie changes only with a closeVoting or a
\* markWatched of that meeting and the date only with a closeVoting of it.
C10_ReopenKeepsResolution ==
  [][\A id \in MeetingIds(db) \cap MeetingIds(db') :
       LET before == MeetingOf(db, id)
           after == MeetingOf(db', id)
       IN /\ (IsReopen(lastOp') /\ lastOp'.id = id) =>
               /\ after.voting_open /\ ~before.voting_open
               /\ after.watched_movie_id = before.watched_movie_id
               /\ after.date = before.date
          /\ after.watched_movie_id # before.watched_movie_id =>
               /\ lastOp'.id = id
               /\ IsCloseVoting(lastOp') \/ lastOp'.op = "markWatched"
          /\ after.date # before.date =>
               (lastOp'.id = id /\ IsCloseVoting(lastOp'))]_vars

\* a meeting resolved to a movie and a date has been re-opened
C10_Witness ==
  /\ IsReopen(lastOp)
  /\ MeetingOf(db, lastOp.id).watched_movie_id # 0
  /\ MeetingOf(db, lastOp.id).date = "d1"
  /\ BallotsOfMeeting(db, lastOp.id) # <<>>

\* C11: when a statement of the resolver fails during closeVoting, the meeting
\* still ends with voting_open false, the other fields of the request are
\* stored, and the response is a success.
C11_ResolverFailureKeepsClose ==
  [][(lastOp'.op = "patchMeeting" /\ "resolver failed" \in lastOp'.tags)
       => /\ lastOp'.status = 200
          /\ HasMeeting(db', lastOp'.id)
          /\ MeetingOf(db, lastOp'.id).voting_open
          /\ ~MeetingOf(db', lastOp'.id).voting_open
          /\ db'.ballots = db.ballots /\ db'.ballot_votes = db.ballot_votes]_vars

\* the relational resolver failed after it had stored the date and before it
\* stored the winner that the ballots of the meeting give
C11_Witness ==
  /\ backend = "sql"
  /\ lastOp.op = "patchMeeting" /\ "resolver failed" \in lastOp.tags
  /\ lastOp.status = 200
  /\ MeetingOf(db, lastOp.id).date = "d2"
  /\ MeetingOf(db, lastOp.id).watched_movie_id = 0
  /\ \E m \in db.movies : VoteCount(lastOp.id, m) > 0 /\ BordaScore(lastOp.id, m) > 0

\* C12: in every reachable state the watched_movie_id of every meeting is unset
\* or the id of a movie that exists.
C12_WatchedMovieExists ==
  \A i \in 1..Len(db.meetings) :
    db.meetings[i].watched_movie_id = 0 \/ db.meetings[i].watched_movie_id \in db.movies

\* C13: deleteMovie on a movie that is the watched movie of a meeting fails, and
\* the movies, the meetings with their allow-lists, the ballots and the rank
\* entries stay as they were.
C13_WatchedMovieIsNotDeleted ==
  [][(lastOp'.op = "deleteMovie"
        /\ \E i \in 1..Len(db.meetings) : db.meetings[i].watched_movie_id = lastOp'.id)
       => (lastOp'.status \in {400, 401, 404} /\ db' = db)]_vars

\* an admin was refused the deletion of an existing movie that a meeting with
\* ballots has watched and lists in its allow-list
C13_Witness ==
  /\ lastOp.op = "deleteMovie" /\ lastOp.status = 400
  /\ lastOp.id \in db.movies
  /\ db.ballots # <<>>
  /\ \E i \in 1..Len(db.meetings) :
       /\ db.meetings[i].watched_movie_id = lastOp.id
       /\ db.meetings[i].allowed_movie_ids = Some(<<1, 2>>)

ValidToken(a, token) ==
  /\ token \in 1..MaxTokens
  /\ a.issuedAt[token] >= 0
  /\ token \notin a.loggedOut
  /\ a.now <= a.issuedAt[token] + TokenTtl

MeetingMutations == {"createMeeting", "patchMeeting", "deleteMeeting", "markWatched"}

MovieMutations == {"createMovie", "deleteMovie"}

\* C15: a request that creates, patches, deletes a meeting or marks its watched
\* movie without a currently valid admin token is answered 401 and leaves the
\* meetings and the ballots as they were.
C15_MeetingMutationsNeedAdmin ==
  [][(lastOp'.op \in MeetingMutations /\ ~ValidToken(auth, lastOp'.token))
       => /\ lastOp'.status = 401
          /\ db'.meetings = db.meetings
          /\ db'.ballots = db.ballots
          /\ db'.ballot_votes = db.ballot_votes]_vars

\* a close of an open meeting with a ballot is refused to a logged-out token
C15_Witness ==
  /\ lastOp.op = "patchMeeting" /\ lastOp.status = 401
  /\ lastOp.token \in auth.loggedOut
  /\ HasMeeting(db, lastOp.id) /\ MeetingOf(db, lastOp.id).voting_open
  /\ db.ballots # <<>>

\* C16: a request that creates or deletes a movie without a currently valid
\* admin token is answered 401 and leaves the set of movies as it was.
C16_MovieMutationsNeedAdmin ==
  [][(lastOp'.op \in MovieMutations /\ ~ValidToken(auth, lastOp'.token))
       => (lastOp'.status = 401 /\ db'.movies = db.movies)]_vars

\* the requests that pass through requireAdmin, and the one that asks /me
Accepted(op) ==
  \/ op.op \in MeetingMutations \cup {"deleteMovie"} /\ op.status # 401
  \/ op.op = "me" /\ "admin" \in op.tags

\* C17: the authorization check accepts a token only when a successful login
\* returned it, it was not logged out since and the time is not later than its
\* issue plus the ttl; a token that was logged out or rejected as expired is
\* out of the store and is not accepted again.
C17_TokenLifetime ==
  /\ [](\A t \in auth.loggedOut \cup auth.expiredSeen : auth.adminTokens[t] = 0)
  /\ [][Accepted(lastOp')
          => /\ ValidToken(auth, lastOp'.token)
             /\ lastOp'.token \notin auth.loggedOut \cup auth.expiredSeen]_vars

\* a token is rejected as expired in the hour after its last valid one
C17_Witness ==
  /\ lastOp.op = "markWatched" /\ lastOp.status = 401
  /\ lastOp.token \in auth.expiredSeen
  /\ auth.now = auth.issuedAt[lastOp.token] + TokenTtl + 1
  /\ auth.adminTokens[lastOp.token] = 0

\* a token is accepted in the last hour of its ttl
C17_WitnessLastHour ==
  /\ Accepted(lastOp) /\ lastOp.token \in 1..MaxTokens
  /\ auth.now = auth.issuedAt[lastOp.token] + TokenTtl

\* C18: while a hash is configured a login succeeds exactly when its password
\* matches the hash, whatever the plaintext variable holds; a password equal to
\* the plaintext that does not match the hash is rejected.
C18_HashAloneDecides ==
  [][(lastOp'.op = "login" /\ auth.ADMIN_PASSWORD_HASH # "")
       => (lastOp'.status = 200
             <=> auth.ADMIN_PASSWORD_HASH = HashOf(lastOp'.password))]_vars

\* the configured plaintext is refused as a password
C18_Witness ==
  /\ lastOp.op = "login" /\ lastOp.status = 401
  /\ auth.ADMIN_PASSWORD_HASH \in {HashOf(p) : p \in Passwords}
  /\ lastOp.password # "" /\ lastOp.password = auth.ADMIN_PASSWORD_PLAINTEXT

\* the password of the hash is accepted next to a different plaintext
C18_WitnessAccepted ==
  /\ lastOp.op = "login" /\ lastOp.status = 200
  /\ auth.ADMIN_PASSWORD_HASH = HashOf(lastOp.password)
  /\ auth.ADMIN_PASSWORD_PLAINTEXT \notin {"", lastOp.password}

\* C19: the list getResults returns, with or without a meeting and whether the
\* meeting is open or closed, is in descending order of score and, among equal
\* scores, of vote count.
C19_ResultsAreOrdered ==
  lastOp.op = "getResults" =>
    LET list == ResultList(backend, db, lastOp.id)
    IN /\ {list[i].id : i \in 1..Len(list)} = db.movies
       /\ \A i, j \in 1..Len(list) :
            i < j => \/ list[i].score > list[j].score
                     \/ /\ list[i].score = list[j].score
                        /\ list[i].vote_count >= list[j].vote_count

\* the movie created last is listed first
C19_Witness ==
  /\ lastOp.op = "getResults" /\ lastOp.id # 0
  /\ LET list == ResultList(backend, db, lastOp.id)
     IN Len(list) = 2 /\ list[1].id > list[2].id /\ list[1].score > list[2].score

\* equal scores are told apart by the vote count
C19_WitnessTie ==
  /\ lastOp.op = "getResults"
  /\ LET list == ResultList(backend, db, lastOp.id)
     IN Len(list) = 2 /\ list[1].id > list[2].id /\ list[1].score = list[2].score
        /\ list[1].vote_count > list[2].vote_count

\* C20: getMeeting returns the meeting with date_counts, one entry for each date
\* a ballot of the meeting lists, counted as often as it is listed.
C20_MeetingCarriesDateCounts ==
  (lastOp.op = "getMeeting" /\ lastOp.status = 200) =>
    \A id \in MeetingIds(db) :
      LET response == MeetingResponse(db, id)
      IN /\ response.date_counts # None
         /\ LET counts == response.date_counts[1]
            IN /\ {counts[i].date : i \in 1..Len(counts)}
                    = {date \in Dates : DateCount(id, date) > 0}
               /\ \A i, j \in 1..Len(counts) : i # j => counts[i].date # counts[j].date
               /\ \A i \in 1..Len(counts) : counts[i].count = DateCount(id, counts[i].date)

\* C21: a meeting created by a request that gives no voting_open starts open.
C21_MeetingStartsOpen ==
  (lastOp.op = "createMeeting" /\ lastOp.status = 200
     /\ "voting_open omitted" \in lastOp.tags)
    => db.meetings[Len(db.meetings)].voting_open

\* the rank entries of one ballot
EntriesOfBallot(ballotId) == {e \in RankEntries(0) : e.key[1] = ballotId}

\* C22: every persisted ballot has between one and three rank entries, each of
\* rank 1, 2 or 3, and no two of them for the same movie.
C22_BallotsAreWellFormed ==
  \A j \in 1..Len(db.ballots) :
    LET entries == EntriesOfBallot(db.ballots[j].id)
    IN /\ Cardinality(entries) \in 1..MaxRanks
       /\ \A e \in entries : e.rank \in 1..3
       /\ \A e, f \in entries : e # f => e.movie # f.movie

\* the rank entries of a ballot of the tables d, in the order they were given
EntrySeq(d, ballot) ==
  IF backend = "sql"
  THEN LET rows == SelectSeq(d.ballot_votes, LAMBDA r : r.ballot_id = ballot.id)
       IN [i \in 1..Len(rows) |-> <<rows[i].movie_id, rows[i].rank>>]
  ELSE [i \in 1..Len(ballot.votes) |->
          <<ballot.votes[i].movie_id, ballot.votes[i].rank>>]

\* C23: a persisted ballot keeps its voter name, meeting, availability list and
\* rank entries for as long as it exists, and it exists for as long as its
\* meeting does.
C23_BallotsAreImmutable ==
  [][\A j \in 1..Len(db.ballots) :
       LET ballot == db.ballots[j]
           kept == {k \in 1..Len(db'.ballots) : db'.ballots[k].id = ballot.id}
       IN /\ HasMeeting(db', ballot.meeting_id) => kept # {}
          /\ \A k \in kept :
               /\ db'.ballots[k].username = ballot.username
               /\ db'.ballots[k].meeting_id = ballot.meeting_id
               /\ db'.ballots[k].availability = ballot.availability
               /\ EntrySeq(db', db'.ballots[k]) = EntrySeq(db, ballot)]_vars

\* the ballots a step persists
NewBallots(before, after) ==
  {b \in Range(after.ballots) : \A j \in 1..Len(before.ballots) : before.ballots[j].id # b.id}

\* C24: however the steps of a submitBallot and of a closeVoting for the same
\* meeting interleave, no ballot is persisted for the meeting once its
\* voting_open is false.
C24_NoBallotAfterClose ==
  [][\A b \in NewBallots(db, db') :
       HasMeeting(db, b.meeting_id) => MeetingOf(db, b.meeting_id).voting_open]_vars

\* the handler p answers a closeVoting in this step, and no ballot of the
\* meeting was added or removed since it started
ClosesOverSameBallots(p) ==
  /\ inflight[p].kind = "patch" /\ inflight[p].pc = "auto" /\ inflight'[p] = Idle
  /\ HasMeeting(db', inflight[p].id)
  /\ BallotsOfMeeting(db', inflight[p].id) = BallotsOfMeeting(inflight[p].seen, inflight[p].id)

\* C25: when closeVoting requests for the same open meeting interleave and no
\* ballot is added in between, each leaves the meeting with the voting_open,
\* watched_movie_id and date that a single closeVoting over those ballots
\* produces.
C25_ConcurrentClosesAgree ==
  [][\A p \in Procs :
       ClosesOverSameBallots(p) =>
         \E single \in FsPatchMeeting(inflight[p].seen, inflight[p].id, inflight[p].body) :
           LET after == MeetingOf(db', inflight[p].id)
               alone == MeetingOf(single.db, inflight[p].id)
           IN /\ after.voting_open = alone.voting_open
              /\ after.watched_movie_id = alone.watched_movie_id
              /\ after.date = alone.date]_vars

\* one closeVoting has answered while another, which also saw the meeting open,
\* has run the resolver and is about to write its result
C25_Witness ==
  /\ lastOp.op = "patchMeeting" /\ lastOp.status = 200 /\ "in flight" \in lastOp.tags
  /\ \E q \in Procs :
       /\ inflight[q].kind = "patch" /\ inflight[q].pc = "auto"
       /\ inflight[q].willCloseVoting /\ inflight[q].id = lastOp.id
       /\ inflight[q].top.movie_id # 0 /\ inflight[q].chosenDate # ""
  /\ HasMeeting(db, lastOp.id)
  /\ MeetingOf(db, lastOp.id).watched_movie_id # 0
  /\ Len(BallotsOfMeeting(db, lastOp.id)) = 2

\* the rank entries of the ballots of a meeting in the tables d of backend b
RankEntriesIn(b, d, meetingId) ==
  IF b = "sql"
  THEN {[key |-> <<d.ballot_votes[i].ballot_id, i>>,
         movie |-> d.ballot_votes[i].movie_id, rank |-> d.ballot_votes[i].rank] :
          i \in {k \in 1..Len(d.ballot_votes) :
                   \E j \in 1..Len(d.ballots) :
                     /\ d.ballots[j].id = d.ballot_votes[k].ballot_id
                     /\ d.ballots[j].meeting_id = meetingId}}
  ELSE UNION {{[key |-> <<d.ballots[j].id, i>>,
                movie |-> d.ballots[j].votes[i].movie_id,
                rank |-> d.ballots[j].votes[i].rank] :
                 i \in 1..Len(d.ballots[j].votes)} :
              j \in {k \in 1..Len(d.ballots) : d.ballots[k].meeting_id = meetingId}}

\* two movies have the same score and the same number of votes in the meeting
MoviesTie(b, d, meetingId) ==
  LET entries == RankEntriesIn(b, d, meetingId)
      of(m) == {e \in entries : e.movie = m}
  IN \E m1, m2 \in d.movies \cup {e.movie : e \in entries} :
       /\ m1 # m2
       /\ BordaSum(of(m1)) = BordaSum(of(m2))
       /\ Cardinality(of(m1)) = Cardinality(of(m2))

\* two dates are listed equally often by the ballots of the meeting
DatesTie(d, meetingId) ==
  \E d1, d2 \in Dates :
    /\ d1 # d2
    /\ ListedBy(BallotsOfMeeting(d, meetingId), d1) > 0
    /\ ListedBy(BallotsOfMeeting(d, meetingId), d1)
         = ListedBy(BallotsOfMeeting(d, meetingId), d2)

\* the step closes a meeting in which movies or dates tie, in either backend
ClosesWithTie ==
  /\ lastOp'.op = "patchMeeting"
  /\ \/ MoviesTie("sql", db, lastOp'.id) \/ MoviesTie("fs", twin, lastOp'.id)
     \/ DatesTie(db, lastOp'.id) \/ DatesTie(twin, lastOp'.id)

\* the meetings of the two backends have the same state and resolution
MeetingsAgree(sql, fs) ==
  /\ Len(sql.meetings) = Len(fs.meetings)
  /\ \A i \in 1..Len(sql.meetings) :
       /\ sql.meetings[i].id = fs.meetings[i].id
       /\ sql.meetings[i].voting_open = fs.meetings[i].voting_open
       /\ sql.meetings[i].watched_movie_id = fs.meetings[i].watched_movie_id
       /\ sql.meetings[i].date = fs.meetings[i].date

\* C26: given the same meeting creations, ballot submissions with ranks 1 to 3
\* and closeVoting requests, none of them closing over a tie of movies or of
\* dates, the two backends keep the same voting_open, winning movie and date on
\* every meeting.
C26_BackendsAgree ==
  [][(MeetingsAgree(db, twin) /\ ~ClosesWithTie) => MeetingsAgree(db', twin')]_vars

\* the outcomes of a PATCH on the backend in use
Patched(d, id, body) ==
  IF backend = "sql" THEN SqlPatchMeeting(d, id, body) ELSE FsPatchMeeting(d, id, body)

ReopenBody == PatchBody({"voting_open"}, TRUE, "")

Resolution(d, id) ==
  <<MeetingOf(d, id).watched_movie_id, MeetingOf(d, id).date>>

\* the resolutions a re-open followed by a closeVoting can leave, from d
ReopenedAndClosed(d, id) ==
  UNION {{Resolution(again.db, id) : again \in Patched(reopened.db, id, CloseBody)} :
           reopened \in Patched(d, id, ReopenBody)}

AllowLists == {None} \cup {Some(l) : l \in {<<>>, <<1>>, <<2>>, <<1, 2>>}}

WithAllowList(d, id, list) ==
  SetMeeting(d, id, [MeetingOf(d, id) EXCEPT !.allowed_movie_ids = list])

Submitted(d, r) ==
  IF backend = "sql"
  THEN SqlSubmitBallot(d, r.username, r.ranks, r.meetingId, r.availability)
  ELSE FsSubmitBallot(d, r.username, r.ranks, r.meetingId, r.availability)

ProbeBallots ==
  AdminBallots \cup {Request("bob", <<Entry(2, 1), Entry(1, 2)>>, 1, None),
                     Request("bob", <<Entry(1, 1), Entry(1, 2)>>, 1, None)}

\* C28: the answer to a ballot and what it stores are the same whatever the
\* allow-list of the meeting is: a ballot is accepted whether or not the movies
\* it ranks are in the list.
C28_AllowListIsNotConsulted ==
  \A id \in MeetingIds(db), list \in AllowLists, r \in ProbeBallots :
    LET here == Submitted(db, r)
        there == Submitted(WithAllowList(db, id, list), r)
    IN /\ there.status = here.status
       /\ there.db.ballots = here.db.ballots
       /\ there.db.ballot_votes = here.db.ballot_votes

\* a ballot that ranks a movie outside the allow-list of its meeting was accepted
C28_Witness ==
  /\ lastOp.op = "submitBallot" /\ lastOp.status = 200
  /\ db.ballots # <<>>
  /\ LET ballot == db.ballots[Len(db.ballots)]
         list == MeetingOf(db, ballot.meeting_id).allowed_movie_ids
     IN /\ HasMeeting(db, ballot.meeting_id)
        /\ list # None
        /\ \E e \in EntriesOfBallot(ballot.id) : e.movie \notin Range(list[1])

\* C29: every stored ballot belongs to a meeting that exists, whatever the
\* interleaving of ballot submissions and meeting deletions.
C29_BallotsHaveMeetings ==
  \A j \in 1..Len(db.ballots) : HasMeeting(db, db.ballots[j].meeting_id)

ListsADate(d, id) ==
  \E b \in Range(BallotsOfMeeting(d, id)) : b.availability # None /\ b.availability[1] # <<>>

DateIsCandidate(d, id) ==
  LET days == MeetingOf(d, id).candidate_days
  IN (days # None /\ days[1] # <<>>) => MeetingOf(d, id).date \in Range(days[1])

\* C30: when a close sets the date of a meeting that has candidate days, the
\* date is one of them.
C30_ChosenDateIsCandidate ==
  [][IsCloseVoting(lastOp') =>
       /\ ListsADate(db, lastOp'.id) => DateIsCandidate(db', lastOp'.id)
       /\ ListsADate(twin, lastOp'.id) => DateIsCandidate(twin', lastOp'.id)]_vars

====
